---- MODULE Spec2Model ----
(***************************************************************************)
(* Model of the two RAG chat scripts of azureOpenAIChatbot:                *)
(*   src/src/improved_rag.py  - query refinement, retrieval, grounded      *)
(*                              answer, three-turn loop    (Spec)          *)
(*   src/src/beginner_rag.py  - plain three-turn chat loop (SpecBeginner)  *)
(*   get_config / clear_env_vars of both scripts           (SpecConfig)    *)
(*                                                                         *)
(* Python strings are sequences of one-character strings, so that strip(), *)
(* concatenation and comparison are computed and not assumed.  Python      *)
(* values that may have several types (str, int, None, dict, float) are    *)
(* records [t |-> type tag, v |-> payload].                                *)
(***************************************************************************)
EXTENDS Integers, Sequences, FiniteSets, TLC

VARIABLES
    pc,              \* position of the running script
    q,               \* turn counter of main()
    text,            \* the user's input of the turn (input())
    chat_completion, \* improved_rag: response of the query-generation call
    query_messages,  \* improved_rag: the messages of the query-generation call
    query_text,      \* improved_rag: result of get_search_query
    docs,            \* improved_rag: list of Doc built from the search results
    messages,        \* improved_rag: the list named messages
    chat_reply,      \* response of the answer completion call
    message_list,    \* beginner_rag: the conversation history
    console,         \* what print() has written, in order
    nSearch,         \* number of search_client.search calls made
    nAnswer,         \* number of grounded-answer completion calls made
    err,             \* the exception that ended the script, if any
    script,          \* SpecConfig: which script is starting
    environ,         \* SpecConfig: os.environ, variable -> origin of its value
    environ0,        \* SpecConfig: os.environ as it was when the script started
    dotenv,          \* SpecConfig: the variables the .env file defines
    i                \* SpecConfig: index of clear_env_vars' loop

vars == <<pc, q, text, chat_completion, query_messages, query_text, docs, messages, chat_reply,
          message_list, console, nSearch, nAnswer, err, script, environ,
          environ0, dotenv, i>>

convVars == <<q, text, chat_completion, query_messages, query_text, docs, messages, chat_reply,
              message_list, console, nSearch, nAnswer>>

confVars == <<script, environ, environ0, dotenv, i>>

----------------------------------------------------------------------------
(* Python values *)

Str(s) == [t |-> "str", v |-> s]

IntV(s) == [t |-> "int", v |-> s]

NoneV == [t |-> "none", v |-> <<>>]

\* A name that has not been assigned in the current turn.
Unbound == [t |-> "unbound", v |-> <<>>]

\* bool(x) for the values tested by `if` in get_search_query
Truthy(x) == x.t = "str" /\ x.v # <<>>

Whitespace == {" "}

RECURSIVE LStrip(_)
LStrip(s) == IF s # <<>> /\ Head(s) \in Whitespace THEN LStrip(Tail(s)) ELSE s

RECURSIVE RStrip(_)
RStrip(s) ==
    IF s # <<>> /\ s[Len(s)] \in Whitespace
    THEN RStrip(SubSeq(s, 1, Len(s) - 1))
    ELSE s

\* str.strip()
Strip(s) == RStrip(LStrip(s))

\* the literal 0 of get_search_query: the default of arg.get and the value
\* both results are compared against
NO_RESPONSE == IntV(<<"0">>)

\* the exception record; line is the source line that raises
NoError == [type |-> "none", line |-> 0]

Exc(type, line) == [type |-> type, line |-> line]

Raise(type, line) == [exc |-> Exc(type, line), value |-> Unbound]

Return(value) == [exc |-> NoError, value |-> value]

----------------------------------------------------------------------------
(* Strings of the model *)

S_plan == <<"p", "l">>

S_zero == <<"0">>

S_hr == <<"h", "r">>

S_hr_padded == <<" ", "h", "r", " ">>

S_blank == <<" ">>

S_days == <<"d", "a", "y", "s">>

S_why_padded == <<" ", "w", "h", "y">>

S_newline == <<"\n">>

\* what the user may type at input()
UserInputs == {S_days, S_why_padded}

----------------------------------------------------------------------------
(* JSON argument strings a model may emit, and json.loads on them *)

ARGS_PLAN == "{\"search_query\": \"pl\"}"

ARGS_ZERO_STR == "{\"search_query\": \"0\"}"

ARGS_ZERO_NUM == "{\"search_query\": 0}"

ARGS_EMPTY == "{}"

ARGS_TRUNCATED == "{\"search_query\": \"pl"

ArgStrings == {ARGS_PLAN, ARGS_ZERO_STR, ARGS_ZERO_NUM, ARGS_EMPTY, ARGS_TRUNCATED}

EmptyDict == [k \in {} |-> NoneV]

\* json.loads: the parsed mapping, or JSONDecodeError
JsonLoads(s) ==
    CASE s = ARGS_PLAN      -> [ok |-> TRUE, obj |-> [search_query |-> Str(S_plan)]]
      [] s = ARGS_ZERO_STR  -> [ok |-> TRUE, obj |-> [search_query |-> Str(S_zero)]]
      [] s = ARGS_ZERO_NUM  -> [ok |-> TRUE, obj |-> [search_query |-> IntV(S_zero)]]
      [] s = ARGS_EMPTY     -> [ok |-> TRUE, obj |-> EmptyDict]
      [] OTHER              -> [ok |-> FALSE, obj |-> EmptyDict]

\* dict.get(key, default)
DictGet(d, key, default) == IF key \in DOMAIN d THEN d[key] ELSE default

----------------------------------------------------------------------------
(* The query-generation response: choices[0].message *)

MaxTools == 2

FunctionCall(name, arguments) ==
    [type |-> "function", function |-> [name |-> name, arguments |-> arguments]]

\* the tool invocations a response may carry
ToolCalls ==
    {FunctionCall("search_sources", a) : a \in ArgStrings}
        \cup {FunctionCall("get_weather", ARGS_EMPTY),
              [type |-> "custom",
               function |-> [name |-> "search_sources", arguments |-> ARGS_PLAN]]}

SeqsUpTo(S, n) == UNION {[1..k -> S] : k \in 0..n}

\* message.content: None or a string
Contents == {NoneV, Str(<<>>), Str(S_blank), Str(S_zero), Str(S_hr), Str(S_hr_padded)}

\* message.tool_calls: None and the empty list are both <<>> (both are falsy)
QueryMessages == [tool_calls : SeqsUpTo(ToolCalls, MaxTools), content : Contents]

\* a ChatCompletion: zero choices, or one choice (n = 1)
QueryCompletions == {[choices |-> <<>>]} \cup {[choices |-> <<m>>] : m \in QueryMessages}

\* the for loop of get_search_query from index k on; falling out of the loop
\* reaches `return user_query`
RECURSIVE scan_tool_calls(_, _, _)
scan_tool_calls(tool_calls, k, user_query) ==
    IF k > Len(tool_calls) THEN Return(Str(user_query))
    ELSE LET tool == tool_calls[k] IN
         IF tool.type # "function" THEN scan_tool_calls(tool_calls, k + 1, user_query)
         ELSE IF tool.function.name = "search_sources"
              THEN LET arg == JsonLoads(tool.function.arguments) IN
                   IF ~arg.ok THEN Raise("JSONDecodeError", 77)
                   ELSE LET search_query == DictGet(arg.obj, "search_query", NO_RESPONSE) IN
                        IF search_query # NO_RESPONSE THEN Return(search_query)
                        ELSE scan_tool_calls(tool_calls, k + 1, user_query)
              ELSE scan_tool_calls(tool_calls, k + 1, user_query)

\* get_search_query with a plausible defect: content preferred over tools,
\* and a parse error swallowed
get_search_query_content_first(completion, user_query) ==
    IF completion.choices = <<>> THEN Raise("IndexError", 70)
    ELSE LET response_msg == completion.choices[1] IN
         IF Truthy(response_msg.content) THEN Return(response_msg.content)
         ELSE scan_tool_calls(response_msg.tool_calls, 1, user_query)

get_search_query_lenient(completion, user_query) ==
    IF completion.choices = <<>> THEN Raise("IndexError", 70)
    ELSE LET response_msg == completion.choices[1]
             r == scan_tool_calls(response_msg.tool_calls, 1, user_query)
         IN  IF r.exc.type = "JSONDecodeError" THEN Return(Str(user_query)) ELSE r

get_search_query(completion, user_query) ==
    IF completion.choices = <<>> THEN Raise("IndexError", 70)
    ELSE LET response_msg == completion.choices[1] IN
         IF response_msg.tool_calls # <<>>
         THEN scan_tool_calls(response_msg.tool_calls, 1, user_query)
         ELSE IF Truthy(response_msg.content)
              THEN IF Str(Strip(response_msg.content.v)) # NO_RESPONSE
                   THEN Return(response_msg.content)
                   ELSE Return(Str(user_query))
              ELSE Return(Str(user_query))

----------------------------------------------------------------------------
(* improved_rag.py: retrieval and the grounded prompt *)

max_questions == 3

\* top=2 of search_client.search
top == 2

S_h1 == <<"a">>

S_h2 == <<"b">>

Float(s) == [t |-> "float", v |-> s]

Dict(d) == [t |-> "dict", v |-> d]

\* documents of the index as the search service returns them: a mapping that
\* may lack "@search.score" or "@search.highlights"
DocFull ==
    ("content" :> Str(<<"A">>)) @@ ("@search.score" :> Float(<<"1">>))
        @@ ("@search.highlights" :> Dict([content |-> <<S_h1>>]))

DocNoScore ==
    ("content" :> Str(<<"B">>))
        @@ ("@search.highlights" :> Dict([content |-> <<S_h2>>]))

DocNoHighlights ==
    ("content" :> Str(<<"C">>)) @@ ("@search.score" :> Float(<<"2">>))

ServiceDocs == {DocFull, DocNoScore, DocNoHighlights}

\* the drained pages of one search: at most top documents, in rank order
SearchResults == SeqsUpTo(ServiceDocs, top)

\* Doc(content=doc.get("content"), score=doc.get("@search.score"),
\*     highlight=doc.get("@search.highlights"))
Doc(doc) ==
    [content |-> DictGet(doc, "content", NoneV),
     score |-> DictGet(doc, "@search.score", NoneV),
     highlight |-> DictGet(doc, "@search.highlights", NoneV)]

MakeDocs(results) == [k \in 1..Len(results) |-> Doc(results[k])]

RECURSIVE Flatten(_)
Flatten(ss) == IF ss = <<>> THEN <<>> ELSE Head(ss) \o Flatten(Tail(ss))

\* " ".join(items)
RECURSIVE Join(_)
Join(items) ==
    IF items = <<>> THEN <<>>
    ELSE IF Len(items) = 1 THEN Head(items)
    ELSE Head(items) \o <<" ">> \o Join(Tail(items))

\* [e for d in docs for e in d.highlight["content"]]: subscripting the
\* highlight of a Doc whose highlight is None raises TypeError
highlight_texts(ds) ==
    IF \E k \in 1..Len(ds) : ds[k].highlight.t # "dict"
    THEN Raise("TypeError", 193)
    ELSE Return(Flatten([k \in 1..Len(ds) |-> ds[k].highlight.v.content]))

\* str(x) inside the f-string
PyStr(x) == IF x.t = "none" THEN <<"N", "o", "n", "e">> ELSE x.v

\* f"**{query_text}**" + " ".join(...)
new_user_content(qt, snippets) ==
    <<"*", "*">> \o PyStr(qt) \o <<"*", "*">> \o Join(snippets)

Msg(role, content) == [role |-> role, content |-> content]

system_message == <<"S", "Y", "S">>

query_prompt_template == <<"Q", "P", "T">>

\* build_messages of openai_messages_token_helper, with a budget that every
\* message fits: the system prompt, the past messages, the new user content
build_messages(system_prompt, past_messages, new_content) ==
    <<Msg("system", system_prompt)>> \o past_messages \o <<Msg("user", new_content)>>

\* the element of messages after `messages = []; messages.append(messages)`:
\* the list itself
SelfList == [role |-> "list", content |-> <<>>]

\* messages[:-1]
AllButLast(s) == IF s = <<>> THEN <<>> ELSE SubSeq(s, 1, Len(s) - 1)

\* [] if q == 0 else messages[:-1]
past_messages(qq, msgs) == IF qq = 0 THEN <<>> ELSE AllButLast(msgs)

\* the answer completion: zero choices, or one choice whose content is None,
\* empty or a text
S_ok == <<"o", "k">>

ReplyContents == {NoneV, Str(<<>>), Str(S_ok)}

Replies == {[choices |-> <<>>]} \cup {[choices |-> <<[content |-> c]>>] : c \in ReplyContents}

\* chat_reply.choices[0].message.content + "\n"
display_chat_guarded(reply) ==
    IF reply.choices = <<>> \/ reply.choices[1].content.t # "str"
    THEN Return(Str(S_newline))
    ELSE Return(Str(reply.choices[1].content.v \o S_newline))

display_chat(reply) ==
    IF reply.choices = <<>> THEN Raise("IndexError", 205)
    ELSE IF reply.choices[1].content.t # "str" THEN Raise("TypeError", 205)
    ELSE Return(Str(reply.choices[1].content.v \o S_newline))

\* print("Response: " + display_chat + "\n")
ResponseLine(shown) == [line |-> "Response", content |-> shown.v]

Goodbye == [line |-> "Goodbye", content |-> <<>>]

----------------------------------------------------------------------------
(* improved_rag.py: main() *)

S_generate == <<"G", ":">>

\* while q < max_questions
LoopCondLe(qq) == qq <= max_questions

LoopCond(qq) == qq < max_questions

Crash(e) ==
    /\ pc' = "crashed"
    /\ err' = e

InitConfUnused ==
    /\ script = "none"
    /\ environ = <<>>
    /\ environ0 = <<>>
    /\ dotenv = {}
    /\ i = 0

\* the state of main() of improved_rag.py when its loop is first reached
Init ==
    /\ pc = "loop"
    /\ q = 0
    /\ text = Unbound
    /\ chat_completion = Unbound
    /\ query_messages = <<>>
    /\ query_text = Unbound
    /\ docs = <<>>
    /\ messages = <<>>
    /\ chat_reply = Unbound
    /\ message_list = <<>>
    /\ console = <<>>
    /\ nSearch = 0
    /\ nAnswer = 0
    /\ err = NoError
    /\ InitConfUnused

\* loop test passed; text = input(...)
LoopEnter ==
    /\ pc = "loop"
    /\ LoopCond(q)
    /\ \E t \in UserInputs : text' = Str(t)
    /\ pc' = "query_call"
    /\ UNCHANGED <<q, chat_completion, query_messages, query_text, docs, messages,
                   chat_reply, message_list, console, nSearch, nAnswer, err>>
    /\ UNCHANGED confVars

\* loop test failed; print("Thanks for chatting! Goodbye")
LoopExit ==
    /\ pc = "loop"
    /\ ~LoopCond(q)
    /\ console' = Append(console, Goodbye)
    /\ pc' = "done"
    /\ UNCHANGED <<q, text, chat_completion, query_messages, query_text, docs,
                   messages, chat_reply, message_list, nSearch, nAnswer, err>>
    /\ UNCHANGED confVars

\* query_messages = build_messages(...); chat_completion = create(...)
QueryCall ==
    /\ pc = "query_call"
    /\ query_messages' = build_messages(query_prompt_template,
                                        past_messages(q, messages),
                                        S_generate \o text.v)
    /\ \E c \in QueryCompletions : chat_completion' = c
    /\ pc' = "extract"
    /\ UNCHANGED <<q, text, query_text, docs, messages, chat_reply, message_list,
                   console, nSearch, nAnswer, err>>
    /\ UNCHANGED confVars

\* the query-generation call raises (service unreachable, bad request)
QueryCallFails ==
    /\ pc = "query_call"
    /\ query_messages' = build_messages(query_prompt_template,
                                        past_messages(q, messages),
                                        S_generate \o text.v)
    /\ Crash(Exc("APIError", 155))
    /\ UNCHANGED <<q, text, chat_completion, query_text, docs, messages, chat_reply,
                   message_list, console, nSearch, nAnswer>>
    /\ UNCHANGED confVars

\* query_text = get_search_query(chat_completion=chat_completion, user_query=text)
ExtractQuery ==
    /\ pc = "extract"
    /\ LET r == get_search_query(chat_completion, text.v) IN
         IF r.exc = NoError
         THEN /\ query_text' = r.value
              /\ pc' = "search"
              /\ err' = err
         ELSE /\ Crash(r.exc)
              /\ query_text' = query_text
    /\ UNCHANGED <<q, text, chat_completion, query_messages, docs, messages,
                   chat_reply, message_list, console, nSearch, nAnswer>>
    /\ UNCHANGED confVars

\* search_client.search(...) and the loop that drains its pages into docs
Search ==
    /\ pc = "search"
    /\ nSearch' = nSearch + 1
    /\ \E results \in SearchResults : docs' = MakeDocs(results)
    /\ pc' = "build_answer"
    /\ UNCHANGED <<q, text, chat_completion, query_messages, query_text, messages,
                   chat_reply, message_list, console, nAnswer, err>>
    /\ UNCHANGED confVars

\* the search request raises
SearchFails ==
    /\ pc = "search"
    /\ nSearch' = nSearch + 1
    /\ Crash(Exc("HttpResponseError", 175))
    /\ UNCHANGED <<q, text, chat_completion, query_messages, query_text, docs,
                   messages, chat_reply, message_list, console, nAnswer>>
    /\ UNCHANGED confVars

\* messages = build_messages(..., new_user_content=f"**{query_text}**" + ...)
BuildAnswer ==
    /\ pc = "build_answer"
    /\ LET h == highlight_texts(docs) IN
         IF h.exc = NoError
         THEN /\ messages' = build_messages(system_message,
                                            past_messages(q, messages),
                                            new_user_content(query_text, h.value))
              /\ pc' = "answer_call"
              /\ err' = err
         ELSE /\ Crash(h.exc)
              /\ messages' = messages
    /\ UNCHANGED <<q, text, chat_completion, query_messages, query_text, docs,
                   chat_reply, message_list, console, nSearch, nAnswer>>
    /\ UNCHANGED confVars

\* chat_reply = oai_client.chat.completions.create(...)
AnswerCall ==
    /\ pc = "answer_call"
    /\ nAnswer' = nAnswer + 1
    /\ \E r \in Replies : chat_reply' = r
    /\ pc' = "display"
    /\ UNCHANGED <<q, text, chat_completion, query_messages, query_text, docs,
                   messages, message_list, console, nSearch, err>>
    /\ UNCHANGED confVars

\* the answer completion call raises
AnswerCallFails ==
    /\ pc = "answer_call"
    /\ nAnswer' = nAnswer + 1
    /\ Crash(Exc("APIError", 198))
    /\ UNCHANGED <<q, text, chat_completion, query_messages, query_text, docs,
                   messages, chat_reply, message_list, console, nSearch>>
    /\ UNCHANGED confVars

\* display_chat = ...; print(...); messages = []; messages.append(messages);
\* q += 1.  The names assigned afresh in every turn before they are read
\* (text, chat_completion, query_messages, query_text, docs, chat_reply) are
\* returned to Unbound: their stale values are never read.
DisplayReply ==
    /\ pc = "display"
    /\ LET d == display_chat(chat_reply) IN
         IF d.exc = NoError
         THEN /\ console' = Append(console, ResponseLine(d.value))
              /\ messages' = <<SelfList>>
              /\ q' = q + 1
              /\ pc' = "loop"
              /\ err' = err
              /\ text' = Unbound
              /\ chat_completion' = Unbound
              /\ query_messages' = <<>>
              /\ query_text' = Unbound
              /\ docs' = <<>>
              /\ chat_reply' = Unbound
         ELSE /\ Crash(d.exc)
              /\ UNCHANGED <<console, messages, q, text, chat_completion,
                             query_messages, query_text, docs, chat_reply>>
    /\ UNCHANGED <<message_list, nSearch, nAnswer>>
    /\ UNCHANGED confVars

Next ==
    \/ LoopEnter
    \/ LoopExit
    \/ QueryCall
    \/ QueryCallFails
    \/ ExtractQuery
    \/ Search
    \/ SearchFails
    \/ BuildAnswer
    \/ AnswerCall
    \/ AnswerCallFails
    \/ DisplayReply

Spec == Init /\ [][Next]_vars

----------------------------------------------------------------------------
(* beginner_rag.py: main() *)

beginner_system_message == <<"B", "S", "M">>

Welcome == [line |-> "Welcome", content |-> <<>>]

RequestLine(t) == [line |-> "Request", content |-> t]

\* response.choices[0].message.content + "\n"
text_reply(reply) ==
    IF reply.choices = <<>> THEN Raise("IndexError", 107)
    ELSE IF reply.choices[1].content.t # "str" THEN Raise("TypeError", 107)
    ELSE Return(Str(reply.choices[1].content.v \o S_newline))

\* message_list.append({"role": role, "content": content})
append_turn_replacing(list, role, content) ==
    IF Len(list) > 1
    THEN SubSeq(list, 1, Len(list) - 1) \o <<Msg(role, content)>>
    ELSE Append(list, Msg(role, content))

append_turn(list, role, content) == Append(list, Msg(role, content))

\* the state of main() of beginner_rag.py when its loop is first reached
InitBeginner ==
    /\ pc = "b_loop"
    /\ q = 0
    /\ text = Unbound
    /\ chat_completion = Unbound
    /\ query_messages = <<>>
    /\ query_text = Unbound
    /\ docs = <<>>
    /\ messages = <<>>
    /\ chat_reply = Unbound
    /\ message_list = <<Msg("system", beginner_system_message)>>
    /\ console = <<Welcome>>
    /\ nSearch = 0
    /\ nAnswer = 0
    /\ err = NoError
    /\ InitConfUnused

\* loop test passed; text = input(...); the request is printed and appended
B_LoopEnter ==
    /\ pc = "b_loop"
    /\ LoopCond(q)
    /\ \E t \in UserInputs :
         /\ text' = Str(t)
         /\ console' = Append(console, RequestLine(t))
         /\ message_list' = append_turn(message_list, "user", t)
    /\ pc' = "b_call"
    /\ UNCHANGED <<q, chat_completion, query_messages, query_text, docs, messages,
                   chat_reply, nSearch, nAnswer, err>>
    /\ UNCHANGED confVars

B_LoopExit ==
    /\ pc = "b_loop"
    /\ ~LoopCond(q)
    /\ console' = Append(console, Goodbye)
    /\ pc' = "done"
    /\ UNCHANGED <<q, text, chat_completion, query_messages, query_text, docs,
                   messages, chat_reply, message_list, nSearch, nAnswer, err>>
    /\ UNCHANGED confVars

\* response = oai_client.chat.completions.create(messages = message_list, ...)
B_Call ==
    /\ pc = "b_call"
    /\ nAnswer' = nAnswer + 1
    /\ \E r \in Replies : chat_reply' = r
    /\ pc' = "b_display"
    /\ UNCHANGED <<q, text, chat_completion, query_messages, query_text, docs,
                   messages, message_list, console, nSearch, err>>
    /\ UNCHANGED confVars

B_CallFails ==
    /\ pc = "b_call"
    /\ nAnswer' = nAnswer + 1
    /\ Crash(Exc("APIError", 100))
    /\ UNCHANGED <<q, text, chat_completion, query_messages, query_text, docs,
                   messages, chat_reply, message_list, console, nSearch>>
    /\ UNCHANGED confVars

\* text_reply = ...; print(...); message_list.append(assistant turn); q += 1
B_Display ==
    /\ pc = "b_display"
    /\ LET d == text_reply(chat_reply) IN
         IF d.exc = NoError
         THEN /\ console' = Append(console, ResponseLine(d.value))
              /\ message_list' = append_turn(message_list, "assistant", d.value.v)
              /\ q' = q + 1
              /\ pc' = "b_loop"
              /\ err' = err
              /\ text' = Unbound
              /\ chat_reply' = Unbound
         ELSE /\ Crash(d.exc)
              /\ UNCHANGED <<console, message_list, q, text, chat_reply>>
    /\ UNCHANGED <<chat_completion, query_messages, query_text, docs, messages,
                   nSearch, nAnswer>>
    /\ UNCHANGED confVars

NextBeginner ==
    \/ B_LoopEnter
    \/ B_LoopExit
    \/ B_Call
    \/ B_CallFails
    \/ B_Display

SpecBeginner == InitBeginner /\ [][NextBeginner]_vars

----------------------------------------------------------------------------
(* get_config() and clear_env_vars() of both scripts *)

Scripts == {"beginner_rag", "improved_rag"}

EnvNames ==
    {"OAI_ENDPOINT", "OAI_KEY", "OAI_DEPLOYMENT", "API_VERSION", "SEARCH_ENDPOINT",
     "SEARCH_KEY", "SEARCH_INDEX", "MODEL_NAME"}

\* the list clear_env_vars iterates over
ClearList(s) ==
    IF s = "beginner_rag"
    THEN <<"OAI_ENDPOINT", "OAI_KEY", "OAI_DEPLOYMENT", "API_VERSION",
           "SEARCH_ENDPOINT", "SEARCH_KEY", "SEARCH_INDEX", "MODEL_NAME">>
    ELSE <<"OAI_ENDPOINT", "OAI_KEY", "OAI_DEPLOYMENT", "API_VERSION",
           "SEARCH_ENDPOINT", "SEARCH_KEY", "SEARCH_INDEX">>

\* the settings the client constructors cannot do without
RequiredSettings(s) ==
    IF s = "beginner_rag"
    THEN {"OAI_ENDPOINT", "OAI_KEY", "API_VERSION"}
    ELSE {"OAI_ENDPOINT", "OAI_KEY", "API_VERSION", "SEARCH_ENDPOINT", "SEARCH_KEY",
          "SEARCH_INDEX"}

\* the .env files considered: none of the variables, all of them, all but the key
DotenvFiles == {{}, EnvNames, EnvNames \ {"OAI_KEY"}}

KeyErrorLine(s) == IF s = "beginner_rag" THEN 7 ELSE 34

\* os.environ.pop(var): KeyError when var is not set
environ_pop_default(env, var, s) == Return([env EXCEPT ![var] = "unset"])

environ_pop(env, var, s) ==
    IF env[var] = "unset" THEN Raise("KeyError", KeyErrorLine(s))
    ELSE Return([env EXCEPT ![var] = "unset"])

\* load_dotenv(): a variable of the file is set unless the environment has it
load_dotenv(env, file) ==
    [v \in EnvNames |-> IF env[v] = "unset" /\ v \in file THEN "dotenv" ELSE env[v]]

InitConfig ==
    /\ pc = "clear_env_vars"
    /\ script \in Scripts
    /\ environ0 \in [EnvNames -> {"unset", "process"}]
    /\ environ = environ0
    /\ dotenv \in DotenvFiles
    /\ i = 1
    /\ q = 0
    /\ text = Unbound
    /\ chat_completion = Unbound
    /\ query_messages = <<>>
    /\ query_text = Unbound
    /\ docs = <<>>
    /\ messages = <<>>
    /\ chat_reply = Unbound
    /\ message_list = <<>>
    /\ console = <<>>
    /\ nSearch = 0
    /\ nAnswer = 0
    /\ err = NoError

\* one iteration of clear_env_vars' loop
ClearEnvVar ==
    /\ pc = "clear_env_vars"
    /\ i <= Len(ClearList(script))
    /\ LET r == environ_pop(environ, ClearList(script)[i], script) IN
         IF r.exc = NoError
         THEN /\ environ' = r.value
              /\ i' = i + 1
              /\ UNCHANGED <<pc, err>>
         ELSE /\ Crash(r.exc)
              /\ UNCHANGED <<environ, i>>
    /\ UNCHANGED <<script, environ0, dotenv>>
    /\ UNCHANGED convVars

\* clear_env_vars returns; load_dotenv()
LoadDotenv ==
    /\ pc = "clear_env_vars"
    /\ i > Len(ClearList(script))
    /\ environ' = load_dotenv(environ, dotenv)
    /\ pc' = "create_clients"
    /\ UNCHANGED <<script, environ0, dotenv, i, err>>
    /\ UNCHANGED convVars

\* the os.getenv calls and the client constructors; get_config returns
CreateClients ==
    /\ pc = "create_clients"
    /\ \A v \in RequiredSettings(script) : environ[v] # "unset"
    /\ pc' = "main"
    /\ UNCHANGED <<script, environ, environ0, dotenv, i, err>>
    /\ UNCHANGED convVars

\* a client constructor rejects a missing setting
CreateClientsFails ==
    /\ pc = "create_clients"
    /\ \E v \in RequiredSettings(script) : environ[v] = "unset"
    /\ Crash(Exc("ConfigurationError", IF script = "beginner_rag" THEN 49 ELSE 50))
    /\ UNCHANGED <<script, environ, environ0, dotenv, i>>
    /\ UNCHANGED convVars

NextConfig ==
    \/ ClearEnvVar
    \/ LoadDotenv
    \/ CreateClients
    \/ CreateClientsFails

SpecConfig == InitConfig /\ [][NextConfig]_vars

----------------------------------------------------------------------------
(* Properties of get_search_query, read in the states of Spec that follow  *)
(* the call of line 164 on the turn's chat_completion                      *)

\* get_search_query has been called on chat_completion, which has a choice
AfterExtract ==
    \/ pc \in {"search", "build_answer", "answer_call", "display"}
    \/ pc = "crashed" /\ err.line \in {77, 175, 193, 198, 205}

response_msg == chat_completion.choices[1]

\* a function invocation named search_sources
IsMatch(tool) == tool.type = "function" /\ tool.function.name = "search_sources"

FirstMatch(tool_calls, k) ==
    /\ k \in 1..Len(tool_calls)
    /\ IsMatch(tool_calls[k])
    /\ \A j \in 1..(k - 1) : ~IsMatch(tool_calls[j])

WellFormed(tool) == JsonLoads(tool.function.arguments).ok

HasQuery(tool) == "search_query" \in DOMAIN JsonLoads(tool.function.arguments).obj

QueryOf(tool) == JsonLoads(tool.function.arguments).obj["search_query"]

Sentinels == {Str(S_zero), IntV(S_zero)}

\* C1 (P1, query precedence): when the first function invocation named
\* search_sources carries well-formed JSON whose search_query is a string X
\* other than the sentinel, get_search_query returns exactly X, whatever the
\* free-text content and the user input are.
C1_QueryPrecedence ==
    AfterExtract =>
        \A k \in 1..Len(response_msg.tool_calls) :
            (/\ FirstMatch(response_msg.tool_calls, k)
             /\ WellFormed(response_msg.tool_calls[k])
             /\ HasQuery(response_msg.tool_calls[k])
             /\ QueryOf(response_msg.tool_calls[k]) \notin Sentinels)
            => query_text = QueryOf(response_msg.tool_calls[k])

\* a valid invocation behind a skipped one, with competing free text
C1_Witness ==
    /\ pc = "search"
    /\ Len(response_msg.tool_calls) = 2
    /\ ~IsMatch(response_msg.tool_calls[1])
    /\ response_msg.tool_calls[2] = FunctionCall("search_sources", ARGS_PLAN)
    /\ response_msg.content = Str(S_hr)
    /\ query_text = Str(S_plan)
    /\ q = 1

\* the tool invocations yield nothing because none matches, or because the
\* first match carries the sentinel
NoMatchOrSentinel(tool_calls) ==
    \/ \A k \in 1..Len(tool_calls) : ~IsMatch(tool_calls[k])
    \/ \E k \in 1..Len(tool_calls) :
          /\ FirstMatch(tool_calls, k)
          /\ WellFormed(tool_calls[k])
          /\ HasQuery(tool_calls[k])
          /\ QueryOf(tool_calls[k]) \in Sentinels

UsableContent(content) ==
    /\ content.t = "str"
    /\ Strip(content.v) # <<>>
    /\ Strip(content.v) # S_zero

\* C2 (P2, fallback chain): when no tool invocation matches search_sources, or
\* the matching one carries the sentinel 0, and the free-text content is
\* non-empty after trimming and is not "0", get_search_query returns that
\* content trimmed; this includes a non-empty invocation list without a match.
C2_FallbackChain ==
    (/\ AfterExtract
     /\ NoMatchOrSentinel(response_msg.tool_calls)
     /\ UsableContent(response_msg.content))
    => query_text = Str(Strip(response_msg.content.v))

\* every matching invocation is well formed and carries no query: the field
\* is missing or is the sentinel
ToolsYieldNoQuery(tool_calls) ==
    \A k \in 1..Len(tool_calls) :
        IsMatch(tool_calls[k]) =>
            /\ WellFormed(tool_calls[k])
            /\ HasQuery(tool_calls[k]) => QueryOf(tool_calls[k]) \in Sentinels

NoContent(content) ==
    \/ content.t = "none"
    \/ Strip(content.v) = <<>>
    \/ Strip(content.v) = S_zero

\* C3 (P3, ultimate fallback): when the tool invocations yield no query and
\* the free-text content is absent, empty, whitespace-only or the sentinel,
\* get_search_query returns the raw user input unchanged, never the sentinel.
C3_UltimateFallback ==
    (/\ AfterExtract
     /\ ToolsYieldNoQuery(response_msg.tool_calls)
     /\ NoContent(response_msg.content))
    => query_text = text

\* a malformed matching invocation that the scan reaches: every matching
\* invocation before it parsed and had no search_query or the number 0
MalformedReached(tool_calls) ==
    \E k \in 1..Len(tool_calls) :
        /\ IsMatch(tool_calls[k])
        /\ ~WellFormed(tool_calls[k])
        /\ \A j \in 1..(k - 1) :
              IsMatch(tool_calls[j]) =>
                  /\ WellFormed(tool_calls[j])
                  /\ HasQuery(tool_calls[j]) => QueryOf(tool_calls[j]) = IntV(S_zero)

\* C4 as claimed: malformed JSON in a search_sources invocation does not
\* abort the turn; get_search_query skips the invocation, still returns a
\* query string and the turn goes on to its retrieval call.
C4_MalformedSkipped ==
    (AfterExtract /\ MalformedReached(response_msg.tool_calls))
    => (query_text.t = "str" /\ err.type # "JSONDecodeError")

\* C4 as amended: malformed JSON in a search_sources function invocation that
\* the scan reaches makes json.loads raise out of get_search_query: no query
\* is returned, the turn makes no retrieval call and the script ends with the
\* parse error, even when free-text content is available.
C4_MalformedAborts ==
    (AfterExtract /\ MalformedReached(response_msg.tool_calls))
    => /\ pc = "crashed"
       /\ err = Exc("JSONDecodeError", 77)
       /\ query_text = Unbound
       /\ nSearch = q

\* second turn: a numeric-0 invocation, then a truncated one, with free text
C4_Witness ==
    /\ pc = "crashed"
    /\ err.type = "JSONDecodeError"
    /\ q = 1
    /\ response_msg.tool_calls =
           <<FunctionCall("search_sources", ARGS_ZERO_NUM),
             FunctionCall("search_sources", ARGS_TRUNCATED)>>
    /\ response_msg.content = Str(S_hr)
    /\ nSearch = 1

----------------------------------------------------------------------------
(* Properties of the loop of improved_rag.py *)

InTurn == pc \in {"query_call", "extract", "search", "build_answer", "answer_call",
                  "display"}

\* C5 (P7, turn count): a run that ends without a fatal error has made exactly
\* max_questions turns, max_questions retrieval calls and max_questions
\* grounded-answer calls; every turn makes one retrieval call and then one
\* grounded-answer call, and no turn is in progress once q = max_questions.
C5_TurnCount ==
    /\ pc = "done" =>
          /\ q = max_questions
          /\ nSearch = max_questions
          /\ nAnswer = max_questions
          /\ err = NoError
    /\ InTurn => q < max_questions
    /\ pc \in {"loop", "query_call", "extract", "search"} =>
          (nSearch = q /\ nAnswer = q)
    /\ pc \in {"build_answer", "answer_call"} => (nSearch = q + 1 /\ nAnswer = q)
    /\ pc = "display" => (nSearch = q + 1 /\ nAnswer = q + 1)
    /\ nSearch <= max_questions
    /\ nAnswer <= max_questions

C5_Witness ==
    /\ pc = "done"
    /\ q = max_questions
    /\ nSearch = max_questions
    /\ nAnswer = max_questions
    /\ Len(console) = max_questions + 1

\* C6 (history growth): after turn N the history held by the loop has length
\* 2N+1 (system turn, N user turns, N assistant answers), and the past
\* messages offered to the two build_messages calls of turn N+1 are those
\* 2N turns after the system turn.
C6_HistoryGrowth ==
    /\ (pc = "loop" /\ q >= 1) => Len(messages) = 2 * q + 1
    /\ (pc = "extract" /\ q >= 1) => Len(query_messages) = 2 * q + 2
    /\ (pc = "answer_call" /\ q >= 1) => Len(messages) = 2 * q + 2

MissingField(d) == d.score.t = "none" \/ d.highlight.t = "none"

\* C7 (missing result fields): a document without score or without highlights
\* is recorded with None for the field, and neither retrieval nor the
\* building of the grounded prompt raises; the turn reaches its
\* grounded-answer call.
C7_MissingFieldsNoError ==
    (/\ pc \notin {"build_answer"}
     /\ \E k \in 1..Len(docs) : MissingField(docs[k]))
    => \/ pc \in {"answer_call", "display"}
       \/ pc = "crashed" /\ err.line \in {198, 205}

NoAnswer(reply) == reply.choices = <<>> \/ reply.choices[1].content.t = "none"

\* C8 as claimed: zero choices, or a first choice with empty-string content,
\* is fatal: nothing is printed for the turn, q is not advanced, no later turn.
C8_EmptyIsFatal ==
    [][(/\ pc = "display"
        /\ \/ chat_reply.choices = <<>>
           \/ chat_reply.choices[1].content = Str(<<>>))
       => (pc' = "crashed" /\ console' = console /\ q' = q)]_vars

\* C8 as amended: zero choices, or a first choice whose content is None, is
\* fatal (line 205 raises): nothing is printed for the turn, q is not advanced
\* and no later step runs.  A first choice whose content is a string, the
\* empty string included, is not fatal: the content followed by a newline is
\* printed, q advances and the loop goes on.
C8_NoAnswerIsFatal ==
    /\ [][pc = "display" =>
            IF NoAnswer(chat_reply)
            THEN /\ pc' = "crashed"
                 /\ err'.line = 205
                 /\ console' = console
                 /\ q' = q
            ELSE /\ pc' = "loop"
                 /\ q' = q + 1
                 /\ console' = Append(console,
                        ResponseLine(Str(chat_reply.choices[1].content.v \o S_newline)))
         ]_vars
    /\ [][pc = "crashed" => pc' = "crashed"]_vars

\* the second turn's answer call returned no choice
C8_Witness ==
    /\ pc = "crashed"
    /\ err = Exc("IndexError", 205)
    /\ chat_reply.choices = <<>>
    /\ q = 1
    /\ Len(console) = 1
    /\ nAnswer = 2

----------------------------------------------------------------------------
(* Properties of beginner_rag.py *)

IsPrefix(s, t) == Len(s) <= Len(t) /\ SubSeq(t, 1, Len(s)) = s

RoleAt(k) == IF k = 1 THEN "system" ELSE IF k % 2 = 0 THEN "user" ELSE "assistant"

BeginnerHistoryShape ==
    /\ Len(message_list) >= 1
    /\ message_list[1] = Msg("system", beginner_system_message)
    /\ \A k \in 1..Len(message_list) : message_list[k].role = RoleAt(k)
    /\ pc = "b_loop" => Len(message_list) = 2 * q + 1
    /\ pc \in {"b_call", "b_display"} =>
          /\ Len(message_list) = 2 * (q + 1)
          /\ message_list[Len(message_list)] = Msg("user", text.v)
    /\ pc = "done" => Len(message_list) = 2 * max_questions + 1

\* C9 (history of beginner_rag): message_list always starts with the system
\* message, nothing is removed or reordered, every turn appends the user's
\* input and then the assistant's reply; the list sent to the completion call
\* of turn N has length 2N with the new user turn last, and after turn N the
\* list has length 2N+1.
C9_BeginnerHistory ==
    /\ []BeginnerHistoryShape
    /\ [][IsPrefix(message_list, message_list')]_vars
    /\ [][pc = "b_loop" /\ pc' = "b_call" =>
            message_list' = Append(message_list, Msg("user", text'.v))]_vars
    /\ [][pc = "b_display" /\ pc' = "b_loop" =>
            message_list' = Append(message_list,
                Msg("assistant", chat_reply.choices[1].content.v \o S_newline))]_vars

\* the completion call of turn 3 is about to be sent six messages
C9_Witness ==
    /\ pc = "b_call"
    /\ q = 2
    /\ Len(message_list) = 6
    /\ message_list[6] = Msg("user", S_why_padded)
    /\ message_list[3] = Msg("assistant", S_ok \o S_newline)

----------------------------------------------------------------------------
(* Properties of get_config *)

ClearSet(s) == {ClearList(s)[k] : k \in 1..Len(ClearList(s))}

MissingAtStart == \E v \in ClearSet(script) : environ0[v] = "unset"

\* C10 (startup ordering): every variable clear_env_vars names is out of the
\* environment before the .env file is loaded; if one of them is not set when
\* the script starts, the removal raises KeyError and startup ends before the
\* .env file is read, before a client is created and before any turn, even
\* when the .env file defines the variable.
C10_ClearBeforeLoad ==
    /\ (pc = "clear_env_vars" /\ i > Len(ClearList(script))) =>
          \A v \in ClearSet(script) : environ[v] = "unset"
    /\ pc \in {"create_clients", "main"} =>
          \A v \in ClearSet(script) : environ[v] # "process"
    /\ pc = "clear_env_vars" =>
          \A k \in 1..(i - 1) : environ0[ClearList(script)[k]] = "process"
    /\ MissingAtStart =>
          /\ pc \in {"clear_env_vars", "crashed"}
          /\ pc = "crashed" => err.type = "KeyError"
          /\ pc = "clear_env_vars" => i <= Len(ClearList(script))
          /\ \A v \in EnvNames : environ[v] # "dotenv"

\* the fourth variable was missing although the .env file defines it
C10_Witness ==
    /\ pc = "crashed"
    /\ err.type = "KeyError"
    /\ i = 4
    /\ environ0["API_VERSION"] = "unset"
    /\ "API_VERSION" \in dotenv
    /\ environ["OAI_KEY"] = "unset"
    /\ environ["SEARCH_KEY"] = "process"

====
